---- MODULE Spec2Model ----
(***************************************************************************)
(* Model of Source.fetch of was_wolfsburg_de.py: one call of fetch on one  *)
(* Source object.  A Python str is a sequence of one-character strings, a  *)
(* dict is the sequence of its items in insertion order (distinct keys),   *)
(* and an exception leaving fetch is recorded in error with pc = "raised". *)
(* A character that is awkward to write is named by its Unicode name.      *)
(***************************************************************************)
EXTENDS Integers, Sequences, FiniteSets, TLC

VARIABLES
    street,        \* self._street
    number,        \* self._number
    pc,            \* "start", "token", "streets", "returned" or "raised"
    requests,      \* the calls of requests.get made so far, in order
    js,            \* the response to the main.js request
    token,         \* the result of re.search on js.text
    r,             \* the response to the download-json request
    streets_response, \* the response to the download-strassen request
    streets_data,  \* streets_response.json().values(), in key order
    data,          \* r.json()
    entries,       \* the list fetch builds, returned when pc = "returned"
    error          \* the exception that left fetch, when pc = "raised"

vars == <<street, number, pc, requests, js, token, r, streets_response,
          streets_data, data, entries, error>>

-----------------------------------------------------------------------------
(* Bounds of the checked inputs.                                           *)

MaxSegments == 2   \* "token=" segments in a script body
MaxEntries  == 3   \* entries of the street directory
MaxNumbers  == 3   \* house numbers of one directory entry
MaxDates    == 2   \* date keys under one waste type

-----------------------------------------------------------------------------
(* Python strings.                                                         *)

\* ord(c) for the characters the inputs are made of.
CodePoint ==
    ("LINE FEED" :> 10) @@ (" " :> 32) @@ ("QUOTATION MARK" :> 34) @@ ("-" :> 45) @@
    ("/" :> 47) @@
    ("0" :> 48) @@ ("1" :> 49) @@ ("2" :> 50) @@ ("3" :> 51) @@ ("4" :> 52) @@
    ("5" :> 53) @@ ("6" :> 54) @@ ("7" :> 55) @@ ("8" :> 56) @@ ("9" :> 57) @@
    ("=" :> 61) @@ ("A" :> 65) @@ ("B" :> 66) @@ ("GRAVE ACCENT" :> 96) @@
    ("a" :> 97) @@ ("b" :> 98) @@ ("e" :> 101) @@ ("k" :> 107) @@
    ("n" :> 110) @@ ("o" :> 111) @@ ("t" :> 116) @@ ("x" :> 120) @@
    ("SUPERSCRIPT TWO" :> 178)

\* The ASCII decimal digits, and their values.
DecimalDigits == {"0", "1", "2", "3", "4", "5", "6", "7", "8", "9"}

DigitValue(c) == CodePoint[c] - CodePoint["0"]

\* str.isdigit: true of the decimal digits and of the characters with the
\* Unicode property Numeric_Type=Digit, such as U+00B2 SUPERSCRIPT TWO.
str_isdigit(c) == c \in DecimalDigits \cup {"SUPERSCRIPT TWO"}

\* The value of a string of decimal digits.
RECURSIVE DecimalValue(_)
DecimalValue(s) ==
    IF s = <<>> THEN 0
    ELSE 10 * DecimalValue(SubSeq(s, 1, Len(s) - 1)) + DigitValue(s[Len(s)])

\* int(s) of a string of isdigit characters: int accepts decimal digits only
\* and raises ValueError on any other character.
int_ok(s) == s # <<>> /\ \A i \in 1..Len(s) : s[i] \in DecimalDigits

\* str(n) of a small natural number.
RECURSIVE str(_)
str(n) ==
    LET d == CHOOSE c \in DecimalDigits : DigitValue(c) = n % 10
    IN  IF n < 10 THEN <<d>> ELSE str(n \div 10) \o <<d>>

\* a < b of two Python strings: by code points, a proper prefix first.
StrLess(a, b) ==
    \E i \in 1..(Len(b)) :
        /\ i <= Len(a) + 1
        /\ SubSeq(a, 1, i - 1) = SubSeq(b, 1, i - 1)
        /\ \/ i = Len(a) + 1
           \/ i <= Len(a) /\ CodePoint[a[i]] < CodePoint[b[i]]

\* All sequences over S of length at most n.
RECURSIVE SeqsUpTo(_, _)
SeqsUpTo(S, n) ==
    IF n = 0 THEN {<<>>}
    ELSE LET shorter == SeqsUpTo(S, n - 1)
         IN  shorter \cup {Append(q, x) : q \in shorter, x \in S}

-----------------------------------------------------------------------------
(* Exceptions.                                                             *)

NoException == [type |-> "None", msg |-> "", field |-> "", value |-> <<>>,
                suggestions |-> <<>>]

Exception(type, msg) ==
    [type |-> type, msg |-> msg, field |-> "", value |-> <<>>,
     suggestions |-> <<>>]

SourceArgumentNotFoundWithSuggestions(field, value, suggestions) ==
    [type |-> "SourceArgumentNotFoundWithSuggestions", msg |-> "",
     field |-> field, value |-> value, suggestions |-> suggestions]

\* Response.raise_for_status raises HTTPError for the client and server
\* error statuses, 400 to 599, and returns for every other status.
raise_for_status(status_code) == 400 <= status_code /\ status_code < 600

-----------------------------------------------------------------------------
(* Step 1 and 2: the script and the token.                                 *)

TokenLiteral == <<"t", "o", "k", "e", "n", "=">>

\* The characters the group [^\"\n\`]* stops at.
TokenStop == {"QUOTATION MARK", "LINE FEED", "GRAVE ACCENT"}

\* The positions of text where the literal token= starts.
TokenStarts(text) ==
    {i \in 1..Len(text) :
        /\ i + Len(TokenLiteral) - 1 <= Len(text)
        /\ SubSeq(text, i, i + Len(TokenLiteral) - 1) = TokenLiteral}

NoMatch == [found |-> FALSE, group1 |-> <<>>]

\* A search that returns an empty match where the literal is missing, as
\* the pattern (token=)?([^\"\n\`]*) with its first group optional would.
re_search_optional(text) ==
    IF TokenStarts(text) = {} THEN [found |-> TRUE, group1 |-> <<>>]
    ELSE LET i     == CHOOSE k \in TokenStarts(text) :
                          \A m \in TokenStarts(text) : k <= m
             first == i + Len(TokenLiteral)
             ends  == {j \in (first - 1)..Len(text) :
                          \A k \in first..j : text[k] \notin TokenStop}
             last  == CHOOSE j \in ends : \A m \in ends : m <= j
         IN  [found |-> TRUE, group1 |-> SubSeq(text, first, last)]

\* A search that returns the rightmost match instead of the leftmost.
re_search_rightmost(text) ==
    IF TokenStarts(text) = {} THEN NoMatch
    ELSE LET i     == CHOOSE k \in TokenStarts(text) :
                          \A m \in TokenStarts(text) : m <= k
             first == i + Len(TokenLiteral)
             ends  == {j \in (first - 1)..Len(text) :
                          \A k \in first..j : text[k] \notin TokenStop}
             last  == CHOOSE j \in ends : \A m \in ends : m <= j
         IN  [found |-> TRUE, group1 |-> SubSeq(text, first, last)]

\* re.search(r"token=([^\"\n\`]*)", text): the leftmost match, its group
\* the longest run of characters outside TokenStop; None without a match.
re_search(text) ==
    IF TokenStarts(text) = {} THEN NoMatch
    ELSE LET i     == CHOOSE k \in TokenStarts(text) :
                          \A m \in TokenStarts(text) : k <= m
             first == i + Len(TokenLiteral)
             ends  == {j \in (first - 1)..Len(text) :
                          \A k \in first..j : text[k] \notin TokenStop}
             last  == CHOOSE j \in ends : \A m \in ends : m <= j
         IN  [found |-> TRUE, group1 |-> SubSeq(text, first, last)]

\* One call of requests.get: the URL and the params it is given.
Request(url, strasse, hausnummer, tok) ==
    [url |-> url, strasse |-> strasse, hausnummer |-> hausnummer,
     token |-> tok]

\* A response variable before its request is answered.
NoResponse == [status_code |-> 0, text |-> <<>>]

\* A failure that is answered by starting over instead of leaving fetch.
RaiseAndRetry(exc) ==
    /\ pc' = "start"
    /\ error' = exc

\* raise X: the exception leaves fetch.
Raise(exc) ==
    /\ pc' = "raised"
    /\ error' = exc

\* Lines 33-38.  requests.get raises ConnectionError when no response
\* arrives; otherwise the response has a status and a body.
FetchJs(JsStatuses, JsTexts) ==
    /\ pc = "start"
    /\ requests' = Append(requests, Request("js/main.js", <<>>, <<>>, <<>>))
    /\ \/ /\ Raise(Exception("ConnectionError", ""))
          /\ UNCHANGED <<js, token>>
       \/ \E status_code \in JsStatuses, text \in JsTexts :
            /\ js' = [status_code |-> status_code, text |-> text]
            /\ IF raise_for_status(status_code)
               THEN /\ Raise(Exception("HTTPError", ""))
                    /\ UNCHANGED token
               ELSE /\ token' = re_search(text)
                    /\ IF token' = NoMatch
                       THEN Raise(Exception("ValueError",
                                    "Token not found in JavaScript file"))
                       ELSE /\ pc' = "token"
                            /\ UNCHANGED error
    /\ UNCHANGED <<street, number, r, streets_response, streets_data, data,
                   entries>>

-----------------------------------------------------------------------------
(* Steps 3 to 8: the collection data.                                      *)

\* The waste types in alphabetical order instead of the declared one.
ICON_MAP_alphabetical ==
    << [waste_type |-> "Altpapier",      icon |-> "mdi:file-document-outline"],
       [waste_type |-> "Bioabfall",      icon |-> "mdi:leaf"],
       [waste_type |-> "Restabfall",     icon |-> "mdi:trash-can"],
       [waste_type |-> "Wertstofftonne", icon |-> "mdi:recycle"] >>

\* ICON_MAP, in the order its items are declared and iterated.
ICON_MAP ==
    << [waste_type |-> "Wertstofftonne", icon |-> "mdi:recycle"],
       [waste_type |-> "Bioabfall",      icon |-> "mdi:leaf"],
       [waste_type |-> "Restabfall",     icon |-> "mdi:trash-can"],
       [waste_type |-> "Altpapier",      icon |-> "mdi:file-document-outline"] >>

\* A parsed JSON value.  A list has its elements in items; a dict (JSON
\* object) has its items, [key, value], in items; of any other value only
\* what Python's truth test reads is kept: n is the number itself, the
\* length of a string, 1 for true and 0 for false.
JSON(kind, n, items) == [kind |-> kind, n |-> n, items |-> items]

Unbound == JSON("unbound", 0, <<>>)

\* bool(value), as "not data" evaluates it.
Truthy(value) ==
    CASE value.kind \in {"list", "dict"} -> value.items # <<>>
      [] value.kind = "null"             -> FALSE
      [] OTHER                           -> value.n # 0

\* The test without isinstance(data, list).
InvalidDataNoType(value) ==
    \/ ~Truthy(value)
    \/ value.kind = "list" /\ Len(value.items) = 0

\* Line 87: not data or not isinstance(data, list) or len(data) == 0.
InvalidData(value) ==
    \/ ~Truthy(value)
    \/ value.kind # "list"
    \/ Len(value.items) = 0

\* data[-1], the last element instead of the first.
LastElement(value) == value.items[Len(value.items)]

\* data[0].
FirstElement(value) == value.items[1]

\* The exception data[0] raises, "" where it raises none: IndexError on an
\* empty list, KeyError on a dict (its keys are strings), TypeError on a
\* value that cannot be subscripted.
FirstElementError(value) ==
    CASE value.kind = "list" ->
             (IF value.items = <<>> THEN "IndexError" ELSE "")
      [] value.kind = "dict" -> "KeyError"
      [] value.kind = "str"  ->
             (IF value.n = 0 THEN "IndexError" ELSE "")
      [] OTHER -> "TypeError"

\* key in d, d[key] and d.keys() of a dict.
DictHas(d, key) == \E i \in 1..Len(d.items) : d.items[i].key = key

DictGet(d, key) ==
    d.items[CHOOSE i \in 1..Len(d.items) : d.items[i].key = key].value

DictKeys(d) == [i \in 1..Len(d.items) |-> d.items[i].key]

\* calendar.monthrange, as datetime's constructor uses it.
IsLeap(year) ==
    year % 4 = 0 /\ (year % 100 # 0 \/ year % 400 = 0)

DaysInMonth(year, month) ==
    IF month = 2 THEN (IF IsLeap(year) THEN 29 ELSE 28)
    ELSE IF month \in {4, 6, 9, 11} THEN 30 ELSE 31

IsDecimal(s) == \A i \in 1..Len(s) : s[i] \in DecimalDigits

\* %Y is \d\d\d\d.
MatchesYear(s) == Len(s) = 4 /\ IsDecimal(s)

\* A month of exactly two digits, 01 to 12.
MatchesMonthPadded(s) ==
    \/ Len(s) = 2 /\ s[1] = "1" /\ s[2] \in {"0", "1", "2"}
    \/ Len(s) = 2 /\ s[1] = "0" /\ s[2] \in DecimalDigits \ {"0"}

\* %m is 1[0-2]|0[1-9]|[1-9].
MatchesMonth(s) ==
    \/ Len(s) = 2 /\ s[1] = "1" /\ s[2] \in {"0", "1", "2"}
    \/ Len(s) = 2 /\ s[1] = "0" /\ s[2] \in DecimalDigits \ {"0"}
    \/ Len(s) = 1 /\ s[1] \in DecimalDigits \ {"0"}

\* %d is 3[0-1]|[1-2]\d|0[1-9]|[1-9]| [1-9].
MatchesDay(s) ==
    \/ Len(s) = 2 /\ s[1] = "3" /\ s[2] \in {"0", "1"}
    \/ Len(s) = 2 /\ s[1] \in {"1", "2"} /\ s[2] \in DecimalDigits
    \/ Len(s) = 2 /\ s[1] = "0" /\ s[2] \in DecimalDigits \ {"0"}
    \/ Len(s) = 1 /\ s[1] \in DecimalDigits \ {"0"}
    \/ Len(s) = 2 /\ s[1] = " " /\ s[2] \in DecimalDigits \ {"0"}

NoDate == [ok |-> FALSE, year |-> 0, month |-> 0, day |-> 0]

\* datetime.strptime(date_string, "%Y-%m-%d").date(): the format's regular
\* expression is matched at the start of the string, an alternative of two
\* characters before one of one character; the match must end where the
\* string ends, and the numbers must be a date of the calendar, its year at
\* least 1.  ok is FALSE where strptime raises ValueError.
strptime(date_string) ==
    LET n      == Len(date_string)
        splits == {x \in {1, 2} \X {1, 2} :
                     /\ n >= 6 + x[1] + x[2]
                     /\ MatchesYear(SubSeq(date_string, 1, 4))
                     /\ date_string[5] = "-"
                     /\ MatchesMonth(SubSeq(date_string, 6, 5 + x[1]))
                     /\ date_string[6 + x[1]] = "-"
                     /\ MatchesDay(SubSeq(date_string, 7 + x[1],
                                          6 + x[1] + x[2]))}
    IN  IF splits = {} THEN NoDate
        ELSE LET x     == CHOOSE y \in splits : \A z \in splits :
                              z[1] <= y[1] /\ (z[1] = y[1] => z[2] <= y[2])
                 year  == DecimalValue(SubSeq(date_string, 1, 4))
                 month == DecimalValue(SubSeq(date_string, 6, 5 + x[1]))
                 dd    == SubSeq(date_string, 7 + x[1], 6 + x[1] + x[2])
                 day   == DecimalValue(IF dd[1] = " " THEN Tail(dd) ELSE dd)
             IN  IF /\ n = 6 + x[1] + x[2]
                    /\ year >= 1
                    /\ day <= DaysInMonth(year, month)
                 THEN [ok |-> TRUE, year |-> year, month |-> month,
                       day |-> day]
                 ELSE NoDate

Collection(date, t, icon) ==
    [date |-> [year |-> date.year, month |-> date.month, day |-> date.day],
     t |-> t, icon |-> icon]

\* Lines 97-104: one Collection per key of data[0][waste_type], until
\* strptime raises.
RECURSIVE DateLoop(_, _, _, _)
DateLoop(acc, date_strs, waste_type, icon) ==
    IF acc.raised \/ date_strs = <<>> THEN acc
    ELSE LET date == strptime(Head(date_strs))
         IN  IF ~date.ok
             THEN [raised |-> TRUE, entries |-> acc.entries]
             ELSE DateLoop([raised  |-> FALSE,
                            entries |-> Append(acc.entries,
                                          Collection(date, waste_type, icon))],
                           Tail(date_strs), waste_type, icon)

\* Lines 95-96: the items of ICON_MAP in order, those in data[0] only.
RECURSIVE TypeLoop(_, _, _)
TypeLoop(acc, icon_map, first) ==
    IF acc.raised \/ icon_map = <<>> THEN acc
    ELSE LET item == Head(icon_map)
         IN  TypeLoop(IF DictHas(first, item.waste_type)
                      THEN DateLoop(acc,
                                    DictKeys(DictGet(first, item.waste_type)),
                                    item.waste_type, item.icon)
                      ELSE acc,
                      Tail(icon_map), first)

NoBody == [json_ok |-> FALSE, json |-> Unbound]

NoDataResponse == [status_code |-> 0, body |-> NoBody]

\* Every server error read as an unknown address.
IsServerError(status_code) == status_code >= 500

\* Line 51: the status that is read as an unknown address.
IsAddressError(status_code) == status_code = 500

\* Lines 41-51 and 84-106.  The body of a response whose status makes the
\* code leave before r.json() is never read and is left out.
FetchData(DataStatuses, DataBodies) ==
    /\ pc = "token"
    /\ requests' = Append(requests,
                     Request("api/download-json", street, number,
                             token.group1))
    /\ \/ /\ Raise(Exception("ConnectionError", ""))
          /\ UNCHANGED <<r, data, entries>>
       \/ \E status_code \in DataStatuses :
          \E body \in IF IsAddressError(status_code)
                         \/ raise_for_status(status_code)
                      THEN {NoBody} ELSE DataBodies :
            /\ r' = [status_code |-> status_code, body |-> body]
            /\ IF IsAddressError(status_code)
               THEN /\ pc' = "streets"
                    /\ UNCHANGED <<error, data, entries>>
               ELSE IF raise_for_status(status_code)
               THEN /\ Raise(Exception("HTTPError", ""))
                    /\ UNCHANGED <<data, entries>>
               ELSE IF ~body.json_ok
               THEN /\ Raise(Exception("JSONDecodeError", ""))
                    /\ UNCHANGED <<data, entries>>
               ELSE /\ data' = body.json
                    /\ IF InvalidData(data')
                       THEN /\ Raise(Exception("ValueError",
                                        "No collection data found"))
                            /\ UNCHANGED entries
                       ELSE IF FirstElementError(data') # ""
                       THEN /\ Raise(Exception(FirstElementError(data'), ""))
                            /\ UNCHANGED entries
                       ELSE IF data'.kind = "str"
                       THEN \* no waste type is a substring of one character
                            /\ pc' = "returned"
                            /\ UNCHANGED <<entries, error>>
                       ELSE LET built == TypeLoop(
                                    [raised |-> FALSE, entries |-> <<>>],
                                    ICON_MAP, FirstElement(data'))
                            IN  /\ entries' = built.entries
                                /\ IF built.raised
                                   THEN Raise(Exception("ValueError",
                                          "time data does not match format"))
                                   ELSE /\ pc' = "returned"
                                        /\ UNCHANGED error
    /\ UNCHANGED <<street, number, js, token, streets_response, streets_data>>

-----------------------------------------------------------------------------
(* Step 3a to 3d: the street directory.                                    *)

\* The elements of a list.
Elements(seq) == {seq[i] : i \in 1..Len(seq)}

\* sorted(seq) and sorted(seq, key=...), less[a, b] telling whether a, or
\* its key, is smaller than b, or its key: Python's sort is stable, so an
\* element moves behind the smaller ones and behind the equal ones that
\* precede it in seq.
sorted(seq, less) ==
    LET n       == Len(seq)
        rank(i) == 1 + Cardinality({j \in 1..n :
                         \/ less[seq[j], seq[i]]
                         \/ ~less[seq[i], seq[j]] /\ j < i})
    IN  [k \in 1..n |-> seq[CHOOSE i \in 1..n : rank(i) = k]]

\* ''.join(filter(str.isdigit, x)).
DigitsOf(x) == SelectSeq(x, str_isdigit)

\* Line 78: int(''.join(filter(str.isdigit, x)) or '0').
SortKey(x) == IF DigitsOf(x) = <<>> THEN 0 ELSE DecimalValue(DigitsOf(x))

\* The key raises ValueError where int() does.
SortKeyRaises(x) == DigitsOf(x) # <<>> /\ ~int_ok(DigitsOf(x))

\* Lines 62-66: the index of the first street_info whose strName is the
\* street, 0 for street_found = None.
StreetFound(values, name) ==
    LET hits == {i \in 1..Len(values) : values[i].strName = name}
    IN  IF hits = {} THEN 0
        ELSE CHOOSE i \in hits : \A j \in hits : i <= j

\* The street names as the directory lists them, not sorted.
UnsortedStreets(values) == [i \in 1..Len(values) |-> values[i].strName]

\* Line 70.
AvailableStreets(values) ==
    LET names == [i \in 1..Len(values) |-> values[i].strName]
    IN  sorted(names, [a \in Elements(names), b \in Elements(names) |->
                          StrLess(a, b)])

\* Lines 76-79.
AvailableNumbers(street_info) ==
    LET numbers == street_info.Hausnummer
    IN  sorted(numbers, [a \in Elements(numbers), b \in Elements(numbers) |->
                            SortKey(a) < SortKey(b)])

NoDirectory == [json_ok |-> FALSE, values |-> <<>>]

NoStreetsResponse == [status_code |-> 0, body |-> NoDirectory]

\* Lines 54-82.
FetchStreets(StreetsStatuses, Directories) ==
    /\ pc = "streets"
    /\ requests' = Append(requests,
                     Request("api/download-strassen", <<>>, <<>>,
                             token.group1))
    /\ \/ /\ Raise(Exception("ConnectionError", ""))
          /\ UNCHANGED <<streets_response, streets_data>>
       \/ \E status_code \in StreetsStatuses :
          \E body \in IF raise_for_status(status_code)
                      THEN {NoDirectory} ELSE Directories :
            /\ streets_response' =
                   [status_code |-> status_code, body |-> body]
            /\ IF raise_for_status(status_code)
               THEN /\ Raise(Exception("HTTPError", ""))
                    /\ UNCHANGED streets_data
               ELSE IF ~body.json_ok
               THEN /\ Raise(Exception("JSONDecodeError", ""))
                    /\ UNCHANGED streets_data
               ELSE /\ streets_data' = body.values
                    /\ LET street_found == StreetFound(streets_data', street)
                       IN  IF street_found = 0
                           THEN Raise(SourceArgumentNotFoundWithSuggestions(
                                    "street", street,
                                    AvailableStreets(streets_data')))
                           ELSE LET street_info == streets_data'[street_found]
                                IN  IF \E i \in 1..Len(street_info.Hausnummer) :
                                         SortKeyRaises(street_info.Hausnummer[i])
                                    THEN Raise(Exception("ValueError",
                                           "invalid literal for int()"))
                                    ELSE Raise(
                                      SourceArgumentNotFoundWithSuggestions(
                                        "number", number,
                                        AvailableNumbers(street_info)))
    /\ UNCHANGED <<street, number, js, token, r, data, entries>>

-----------------------------------------------------------------------------
(* The constructor.                                                        *)

\* Lines 26-28: number is a str or an int and is kept as str(number).
InitWith(StreetArgs, NumberArgs) ==
    /\ street \in StreetArgs
    /\ number \in {IF arg.is_int THEN str(arg.n) ELSE arg.s :
                      arg \in NumberArgs}
    /\ pc = "start"
    /\ requests = <<>>
    /\ js = NoResponse
    /\ token = NoMatch
    /\ r = NoDataResponse
    /\ streets_response = NoStreetsResponse
    /\ streets_data = <<>>
    /\ data = Unbound
    /\ entries = <<>>
    /\ error = NoException

-----------------------------------------------------------------------------
(* The inputs: constructor arguments and the answers of the three          *)
(* endpoints.                                                              *)

StreetArgs == {<<"A">>, <<"a">>, <<"A", " ">>}

NumberArgs ==
    { [is_int |-> TRUE,  n |-> 2,  s |-> <<>>],
      [is_int |-> TRUE,  n |-> 10, s |-> <<>>],
      [is_int |-> FALSE, n |-> 0,  s |-> <<"2", "a">>] }

OneNumber == {[is_int |-> TRUE, n |-> 2, s |-> <<>>]}

JsStatuses      == {200, 300, 404}
DataStatuses    == {200, 300, 404, 500, 503}
StreetsStatuses == {200, 404, 500}

\* Script bodies: text without token=, then up to n segments token=<run>
\* each ended by a quote, a backtick, a newline or nothing.
TokenRuns == {<<>>, <<"A">>, <<"B">>, <<"A", "B">>}

TokenEnds ==
    {<<>>, <<"QUOTATION MARK">>, <<"GRAVE ACCENT">>, <<"LINE FEED">>}

Segments == {TokenLiteral \o run \o end : run \in TokenRuns, end \in TokenEnds}

RECURSIVE SegmentTexts(_)
SegmentTexts(n) ==
    IF n = 0 THEN {<<>>}
    ELSE LET shorter == SegmentTexts(n - 1)
         IN  shorter \cup {text \o seg : text \in shorter, seg \in Segments}

ScriptTexts ==
    {head \o text : head \in {<<>>, <<"x">>, <<"t", "o", "k", "e", "n">>},
                    text \in SegmentTexts(MaxSegments)}

FewTexts ==
    { <<"x">>,
      <<"t", "o", "k", "e", "n">>,
      TokenLiteral \o <<"QUOTATION MARK">>,
      <<"x">> \o TokenLiteral \o <<"A", "B", "QUOTATION MARK", "x">> }

\* Date keys.
D20260105 == <<"2", "0", "2", "6", "-", "0", "1", "-", "0", "5">>
D20260119 == <<"2", "0", "2", "6", "-", "0", "1", "-", "1", "9">>
D202615   == <<"2", "0", "2", "6", "-", "1", "-", "5">>
DSlashes  == <<"2", "0", "2", "6", "/", "0", "1", "/", "0", "5">>

DateYears ==
    { <<"2", "0", "2", "6">>, <<"2", "0", "2", "4">>, <<"1", "9", "0", "0">>,
      <<"0", "0", "0", "0">>, <<"2", "0", "2">> }

DateSeps == {<<"-">>, <<"/">>}

DateMonths ==
    { <<"0", "1">>, <<"1">>, <<"0", "2">>, <<"2">>, <<"1", "2">>,
      <<"1", "3">>, <<"0">> }

DateDays ==
    { <<"0", "5">>, <<"5">>, <<" ", "5">>, <<"5", " ">>, <<"2", "9">>,
      <<"3", "0">>, <<"3", "1">>, <<"3", "2">>, <<"0", "0">>,
      <<"0", "5", "1">> }

ManyDates ==
    {y \o s1 \o m \o s2 \o d :
        y \in DateYears, s1 \in DateSeps, m \in DateMonths, s2 \in DateSeps,
        d \in DateDays}

DateItem(date_str, note) == [key |-> date_str, value |-> note]

DateItems ==
    {DateItem(d, "") : d \in {D20260105, D20260119, D202615, DSlashes}}
    \cup {DateItem(D20260119, "Feiertagsverschiebung")}

HasDistinctKeys(items) ==
    \A i, j \in 1..Len(items) : items[i].key = items[j].key => i = j

\* The date maps of up to MaxDates keys.
DateMaps ==
    {JSON("dict", 0, items) :
        items \in {q \in SeqsUpTo(DateItems, MaxDates) : HasDistinctKeys(q)}}

\* The keys of data[0], in the order of the response.
KeyOrders ==
    { <<>>, <<"Restabfall">>, <<"Bioabfall">>, <<"Sperrmuell">>,
      <<"Altpapier", "Wertstofftonne">>, <<"Sperrmuell", "Restabfall">>,
      <<"Restabfall", "Bioabfall">> }

TypeDicts(orders, maps) ==
    UNION {{JSON("dict", 0, [i \in 1..Len(keys) |->
                               [key |-> keys[i], value |-> m[i]]]) :
              m \in [1..Len(keys) -> maps]} : keys \in orders}

\* One date key under Restabfall, alone or after a well-formed one.
OneDateDicts(dates) ==
    UNION {{JSON("dict", 0, <<[key |-> "Restabfall", value |->
                JSON("dict", 0, <<DateItem(d, "")>>)]>>),
            JSON("dict", 0, <<[key |-> "Restabfall", value |->
                JSON("dict", 0, <<DateItem(D20260105, "x"),
                                  DateItem(d, "")>>)]>>)} :
           d \in dates \ {D20260105}}

\* Elements after data[0].
LaterElements ==
    TypeDicts({<<"Bioabfall">>, <<"Sperrmuell">>},
              {JSON("dict", 0, <<DateItem(D20260105, "")>>),
               JSON("dict", 0, <<DateItem(DSlashes, "")>>)})

Parsed(value) == [json_ok |-> TRUE, json |-> value]

\* Bodies that are a non-empty list of dicts.
ListBodies(firsts) ==
    {Parsed(JSON("list", 0, <<first>>)) : first \in firsts}

LongListBodies(firsts) ==
    {Parsed(JSON("list", 0, <<first, later>>)) :
        first \in firsts, later \in LaterElements}

\* Bodies that are no non-empty list, or no JSON at all.
OtherBodies ==
    { NoBody,
      Parsed(JSON("list", 0, <<>>)),
      Parsed(JSON("dict", 0, <<>>)),
      Parsed(JSON("dict", 0, <<[key |-> "Restabfall", value |->
                 JSON("dict", 0, <<DateItem(D20260105, "")>>)]>>)),
      Parsed(JSON("null", 0, <<>>)),
      Parsed(JSON("int", 0, <<>>)),
      Parsed(JSON("int", 5, <<>>)),
      Parsed(JSON("str", 0, <<>>)),
      Parsed(JSON("str", 3, <<>>)),
      Parsed(JSON("bool", 0, <<>>)),
      Parsed(JSON("bool", 1, <<>>)) }

\* A few date maps, for the responses with two waste types.
FewMaps ==
    { JSON("dict", 0, <<>>),
      JSON("dict", 0, <<DateItem(D20260105, "")>>),
      JSON("dict", 0, <<DateItem(DSlashes, "")>>),
      JSON("dict", 0, <<DateItem(D20260119, ""), DateItem(D20260105, "x")>>),
      JSON("dict", 0, <<DateItem(D20260105, ""), DateItem(D202615, "")>>) }

FewBodies ==
    OtherBodies
    \cup ListBodies(TypeDicts({<<"Restabfall">>,
                               <<"Altpapier", "Wertstofftonne">>}, FewMaps))

ManyBodies ==
    OtherBodies
    \cup ListBodies(TypeDicts({<<>>, <<"Restabfall">>, <<"Bioabfall">>,
                               <<"Sperrmuell">>}, DateMaps))
    \cup ListBodies(TypeDicts(KeyOrders, FewMaps))
    \cup ListBodies(OneDateDicts(ManyDates))
    \cup LongListBodies(TypeDicts({<<"Restabfall">>}, DateMaps))
    \cup LongListBodies(TypeDicts({<<"Sperrmuell", "Restabfall">>}, FewMaps))

\* The street directory.
DirNames == {<<"A">>, <<"a">>, <<"B">>, <<"A", "B">>}

HouseNumbers ==
    { <<"1">>, <<"2">>, <<"1", "0", "a">>, <<"a">>, <<"2", "b">>,
      <<"1", "SUPERSCRIPT TWO">> }

StreetInfo(strName, Hausnummer) ==
    [strName |-> strName, Hausnummer |-> Hausnummer]

Directory(values) == [json_ok |-> TRUE, values |-> values]

\* Up to MaxEntries streets, each with the house number 1.
StreetDirectories ==
    {Directory(values) :
        values \in SeqsUpTo({StreetInfo(name, <<<<"1">>>>) :
                                name \in DirNames}, MaxEntries)}

\* Street A with up to MaxNumbers house numbers: alone, after street B, and
\* before a second entry named A.
NumberDirectories ==
    UNION {{Directory(<<StreetInfo(<<"A">>, numbers)>>),
            Directory(<<StreetInfo(<<"B">>, <<<<"1">>>>),
                        StreetInfo(<<"A">>, numbers)>>),
            Directory(<<StreetInfo(<<"A">>, numbers),
                        StreetInfo(<<"A">>, <<<<"2">>>>)>>)} :
           numbers \in SeqsUpTo(HouseNumbers, MaxNumbers)}

FewDirectories ==
    { NoDirectory,
      Directory(<<>>),
      Directory(<<StreetInfo(<<"B">>, <<<<"1">>>>),
                  StreetInfo(<<"A">>, <<<<"1", "0", "a">>, <<"2">>,
                                        <<"1">>>>)>>) }

-----------------------------------------------------------------------------
(* Specifications.  Every one is the whole of fetch; they differ in the    *)
(* answers the endpoints may give.                                         *)

Init == InitWith(StreetArgs, NumberArgs)

Next ==
    \/ FetchJs(JsStatuses, FewTexts)
    \/ FetchData(DataStatuses, FewBodies)
    \/ FetchStreets(StreetsStatuses, FewDirectories \cup StreetDirectories)

Spec == Init /\ [][Next]_vars

\* Many script bodies.
NextToken ==
    \/ FetchJs(JsStatuses, ScriptTexts)
    \/ FetchData({200, 500}, {NoBody})
    \/ FetchStreets({200}, {NoDirectory})

SpecToken == InitWith({<<"A">>}, OneNumber) /\ [][NextToken]_vars

\* Many collection data.
NextData ==
    \/ FetchJs({200}, {<<"x">>, TokenLiteral \o <<"A", "QUOTATION MARK">>})
    \/ FetchData(DataStatuses, ManyBodies)
    \/ FetchStreets({200}, {NoDirectory})

SpecData == InitWith({<<"A">>}, OneNumber) /\ [][NextData]_vars

\* Many street directories.
NextDir ==
    \/ FetchJs({200}, FewTexts)
    \/ FetchData({200, 500}, {NoBody})
    \/ FetchStreets(StreetsStatuses,
                    FewDirectories \cup StreetDirectories
                    \cup NumberDirectories)

SpecDir == Init /\ [][NextDir]_vars

-----------------------------------------------------------------------------
(* The error taxonomy of the specification, in the exceptions of the code. *)

TransportError(exc) == exc.type \in {"HTTPError", "ConnectionError"}

TokenNotFoundError(exc) ==
    exc.type = "ValueError" /\ exc.msg = "Token not found in JavaScript file"

\* The ValueError of line 88 and of strptime, and the JSONDecodeError of
\* Response.json, which is a ValueError too.
DataFormatError(exc) ==
    \/ /\ exc.type = "ValueError"
       /\ exc.msg \in {"No collection data found",
                       "time data does not match format"}
    \/ exc.type = "JSONDecodeError"

ArgumentNotFoundError(exc) ==
    exc.type = "SourceArgumentNotFoundWithSuggestions"

\* A status of the 2xx class.
Success(status_code) == status_code \in 200..299

-----------------------------------------------------------------------------
(* The token: C7, C8.                                                      *)

\* The positions where text reads t, o, k, e, n, =.
LiteralAt(text) ==
    {i \in 1..(Len(text) - 5) :
        <<text[i], text[i + 1], text[i + 2], text[i + 3], text[i + 4],
          text[i + 5]>> = <<"t", "o", "k", "e", "n", "=">>}

StopChars == {"QUOTATION MARK", "GRAVE ACCENT", "LINE FEED"}

\* C7: when the script was fetched and its body holds no token= substring,
\* fetch has failed with TokenNotFoundError and the script request is the
\* only request ever made.
C7_NoTokenNoRequest ==
    (Success(js.status_code) /\ LiteralAt(js.text) = {})
        => /\ pc = "raised"
           /\ TokenNotFoundError(error)
           /\ Len(requests) = 1
           /\ requests[1].url = "js/main.js"

C7_Witness ==
    /\ Success(js.status_code)
    /\ js.text = <<"t", "o", "k", "e", "n">>
    /\ pc = "raised"

\* C8 as stated: whatever token=XYZ" the script body contains, XYZ free of
\* quote, backtick and newline, the token parameter of the data request and
\* of the directory request is XYZ.
C8_AnyOccurrenceSent ==
    \A k \in 2..Len(requests) :
    \A i \in LiteralAt(js.text) :
    \A j \in (i + 6)..Len(js.text) :
        (/\ js.text[j] = "QUOTATION MARK"
         /\ \A m \in (i + 6)..(j - 1) : js.text[m] \notin StopChars)
            => requests[k].token = SubSeq(js.text, i + 6, j - 1)

\* C8 amended: the token parameter of the data request and of the directory
\* request is the run of characters after the first token= of the script
\* body, up to and excluding the first quote, backtick or newline, or up to
\* the end of the body.
C8_FirstOccurrenceSent ==
    \A k \in 2..Len(requests) :
        LET text == js.text
            sent == requests[k].token
        IN  /\ LiteralAt(text) # {}
            /\ LET i    == CHOOSE x \in LiteralAt(text) :
                               \A y \in LiteralAt(text) : x <= y
                   stop == i + 6 + Len(sent)
               IN  /\ stop - 1 <= Len(text)
                   /\ SubSeq(text, i + 6, stop - 1) = sent
                   /\ \A m \in 1..Len(sent) : sent[m] \notin StopChars
                   /\ stop <= Len(text) => text[stop] \in StopChars

C8_Witness ==
    /\ Len(requests) = 3
    /\ requests[2].token = <<"A">>
    /\ requests[3].token = <<"A">>
    /\ Cardinality(LiteralAt(js.text)) = 2
    /\ js.text[Len(js.text)] = "QUOTATION MARK"
    /\ SubSeq(js.text, Len(js.text) - 2, Len(js.text) - 1) = <<"A", "B">>

-----------------------------------------------------------------------------
(* The requests and the statuses: C4, C6, C9.                              *)

RequestOrder == <<"js/main.js", "api/download-json", "api/download-strassen">>

\* The requests made are the first Len(requests) endpoints of RequestOrder,
\* the directory among them only when the data request answered 500.
RequestsInOrder ==
    /\ Len(requests) <= 3
    /\ \A i \in 1..Len(requests) : requests[i].url = RequestOrder[i]
    /\ r.status_code # 500 => Len(requests) <= 2
    /\ Len(requests) = 3 => r.status_code = 500

\* A step makes at most one request, and none once fetch has failed or
\* returned.
OneRequestPerStep ==
    /\ Len(requests') <= Len(requests) + 1
    /\ pc \in {"raised", "returned"} => requests' = requests

\* C4: at most two requests unless the data request answers 500 and at most
\* three when it does; script, data, directory in this order, each at most
\* once; the directory only after a 500 on the data request; no request
\* after the first failure.
C4_RequestSequence == []RequestsInOrder /\ [][OneRequestPerStep]_vars

C4_Witness ==
    /\ Len(requests) = 3
    /\ r.status_code = 500
    /\ pc = "raised"
    /\ TransportError(error)

\* C6 as stated: a data response whose status is neither of the 2xx class
\* nor 500 makes fetch fail with TransportError, without records and
\* without a directory request.
C6_NonSuccessIsTransportError ==
    (r.status_code # 0 /\ ~Success(r.status_code) /\ r.status_code # 500)
        => /\ pc = "raised"
           /\ TransportError(error)
           /\ entries = <<>>
           /\ Len(requests) = 2

\* C6 amended: a data response with a client or server error status (400 to
\* 599) other than 500 makes fetch fail with TransportError, without
\* records and without a directory request.
C6_ErrorStatusIsTransportError ==
    (r.status_code \in 400..599 /\ r.status_code # 500)
        => /\ pc = "raised"
           /\ TransportError(error)
           /\ ~ArgumentNotFoundError(error)
           /\ ~DataFormatError(error)
           /\ entries = <<>>
           /\ Len(requests) = 2

C6_Witness ==
    /\ r.status_code = 503
    /\ pc = "raised"
    /\ error.type = "HTTPError"

\* The parsed body is a list with at least one element.
NonEmptyList(value) == value.kind = "list" /\ Len(value.items) >= 1

\* The data request was answered, its status let the code read the body,
\* and the body parsed as JSON.
DataParsed ==
    /\ r.status_code # 0
    /\ r.status_code # 500
    /\ r.status_code \notin 400..599
    /\ r.body.json_ok

\* C9: when the data request succeeds and the parsed body is no non-empty
\* list, fetch fails with DataFormatError and returns nothing.
C9_NotNonEmptyList ==
    (DataParsed /\ ~NonEmptyList(r.body.json))
        => /\ pc = "raised"
           /\ DataFormatError(error)
           /\ error.msg = "No collection data found"
           /\ entries = <<>>

C9_Witness ==
    /\ DataParsed
    /\ Success(r.status_code)
    /\ data = JSON("list", 0, <<>>)
    /\ pc = "raised"

-----------------------------------------------------------------------------
(* The suggestions: C1, C2.                                                *)

\* a and b hold the same elements, each as often.
SameElements(a, b) ==
    /\ Len(a) = Len(b)
    /\ \A i \in 1..Len(a) :
          Cardinality({k \in 1..Len(a) : a[k] = a[i]})
              = Cardinality({k \in 1..Len(b) : b[k] = a[i]})

\* a is at most b in lexicographic order: where they first differ a has
\* the smaller character, or a is a prefix of b.
LexLeq(a, b) ==
    LET differ == {i \in 1..Len(a) : i > Len(b) \/ a[i] # b[i]}
    IN  \/ differ = {}
        \/ LET i == CHOOSE x \in differ : \A y \in differ : x <= y
           IN  i <= Len(b) /\ CodePoint[a[i]] < CodePoint[b[i]]

\* The integer formed from the digits 0 to 9 of a house number, 0 without
\* any.
EmbeddedNumber(x) ==
    LET IsDigit(c) == c \in {"0", "1", "2", "3", "4", "5", "6", "7", "8", "9"}
    IN  DecimalValue(SelectSeq(x, IsDigit))

AscendingByNumber(seq) ==
    \A i, j \in 1..Len(seq) :
        i < j => EmbeddedNumber(seq[i]) <= EmbeddedNumber(seq[j])

AscendingLex(seq) ==
    \A i, j \in 1..Len(seq) : i < j => LexLeq(seq[i], seq[j])

\* The data request answered 500 and the directory request succeeded.
DirectoryFetched ==
    /\ r.status_code = 500
    /\ Success(streets_response.status_code)
    /\ streets_response.body.json_ok

DirectoryValues == streets_response.body.values

\* C1: when the data request answered 500, the directory was fetched and an
\* entry has the query street as strName, fetch has failed with
\* ArgumentNotFoundError for the field number and the query's house number,
\* suggesting that entry's house numbers, all of them, in ascending order
\* of their embedded numbers.
C1_NumberSuggestions ==
    (DirectoryFetched
        /\ \E i \in 1..Len(DirectoryValues) :
              DirectoryValues[i].strName = street)
        => /\ pc = "raised"
           /\ ArgumentNotFoundError(error)
           /\ error.field = "number"
           /\ error.value = number
           /\ \E i \in 1..Len(DirectoryValues) :
                 /\ DirectoryValues[i].strName = street
                 /\ SameElements(error.suggestions,
                                 DirectoryValues[i].Hausnummer)
           /\ AscendingByNumber(error.suggestions)

\* C2: when the data request answered 500, the directory was fetched and no
\* entry has the query street as strName, compared as it is, fetch has
\* failed with ArgumentNotFoundError for the field street and the query
\* street, suggesting the strName of every entry in lexicographic order.
C2_StreetSuggestions ==
    (DirectoryFetched
        /\ \A i \in 1..Len(DirectoryValues) :
              DirectoryValues[i].strName # street)
        => /\ pc = "raised"
           /\ ArgumentNotFoundError(error)
           /\ error.field = "street"
           /\ error.value = street
           /\ SameElements(error.suggestions,
                           [i \in 1..Len(DirectoryValues) |->
                               DirectoryValues[i].strName])
           /\ AscendingLex(error.suggestions)

C2_Witness ==
    /\ DirectoryFetched
    /\ street = <<"A", " ">>
    /\ Len(streets_data) = 3
    /\ streets_data[1].strName = <<"a">>
    /\ streets_data[2].strName = <<"A", "B">>
    /\ streets_data[3].strName = <<"A">>
    /\ error.field = "street"
    /\ error.suggestions = << <<"A">>, <<"A", "B">>, <<"a">> >>

-----------------------------------------------------------------------------
(* The records: C3, C5, C10.                                               *)

KnownOrder == <<"Wertstofftonne", "Bioabfall", "Restabfall", "Altpapier">>

KnownTypes == {KnownOrder[k] : k \in 1..4}

IconOf(t) ==
    CASE t = "Wertstofftonne" -> "mdi:recycle"
      [] t = "Bioabfall"      -> "mdi:leaf"
      [] t = "Restabfall"     -> "mdi:trash-can"
      [] t = "Altpapier"      -> "mdi:file-document-outline"

\* The data request was answered with a body that is a non-empty list.
DataIsList == DataParsed /\ NonEmptyList(r.body.json)

\* The date keys of the response under waste type t of element e, in the
\* order of the response; none when the element has no key t.
DateKeysOf(e, t) ==
    LET hits == {i \in 1..Len(e.items) : e.items[i].key = t}
    IN  IF hits = {} THEN <<>>
        ELSE LET dates == e.items[CHOOSE i \in hits : TRUE].value
             IN  [j \in 1..Len(dates.items) |-> dates.items[j].key]

\* All date keys of data[0] under the known waste types.
KnownDateKeys ==
    UNION {{DateKeysOf(r.body.json.items[1], t)[j] :
               j \in 1..Len(DateKeysOf(r.body.json.items[1], t))} :
           t \in KnownTypes}

AllDigits(s) ==
    \A i \in 1..Len(s) :
        s[i] \in {"0", "1", "2", "3", "4", "5", "6", "7", "8", "9"}

CalendarDays(year, month) ==
    LET leap == (year % 4 = 0 /\ year % 100 # 0) \/ year % 400 = 0
    IN  <<31, IF leap THEN 29 ELSE 28, 31, 30, 31, 30,
          31, 31, 30, 31, 30, 31>>[month]

\* The strict form YYYY-MM-DD: ten characters, digits around two hyphens.
StrictForm(s) ==
    /\ Len(s) = 10
    /\ AllDigits(SubSeq(s, 1, 4)) /\ s[5] = "-"
    /\ AllDigits(SubSeq(s, 6, 7)) /\ s[8] = "-"
    /\ AllDigits(SubSeq(s, 9, 10))

\* s is year - month - day, the month ml and the day dl characters long,
\* and names a date of the calendar: a year of four digits, at least 1, a
\* month of one or two digits, 1 to 12, a day of one or two digits, or of a
\* space and a digit, 1 to the length of the month.
ReadsAs(s, ml, dl) ==
    /\ Len(s) = 6 + ml + dl
    /\ s[5] = "-" /\ s[6 + ml] = "-"
    /\ LET y  == SubSeq(s, 1, 4)
           m  == SubSeq(s, 6, 5 + ml)
           d  == SubSeq(s, 7 + ml, 6 + ml + dl)
           dn == IF dl = 2 /\ d[1] = " " THEN <<d[2]>> ELSE d
       IN  /\ AllDigits(y) /\ AllDigits(m) /\ AllDigits(dn)
           /\ DecimalValue(y) >= 1
           /\ DecimalValue(m) \in 1..12
           /\ DecimalValue(dn) \in 1..CalendarDays(DecimalValue(y),
                                                   DecimalValue(m))

Accepted(s) == \E ml, dl \in {1, 2} : ReadsAs(s, ml, dl)

\* The calendar date an accepted string denotes.
DateDenoted(s) ==
    LET x  == CHOOSE x \in {1, 2} \X {1, 2} : ReadsAs(s, x[1], x[2])
        d  == SubSeq(s, 7 + x[1], 6 + x[1] + x[2])
    IN  [year  |-> DecimalValue(SubSeq(s, 1, 4)),
         month |-> DecimalValue(SubSeq(s, 6, 5 + x[1])),
         day   |-> DecimalValue(IF d[1] = " " THEN <<d[2]>> ELSE d)]

\* Where the records of the k-th known type start in the result.
RecordsBefore[k \in 1..5] ==
    IF k = 1 THEN 0
    ELSE RecordsBefore[k - 1]
         + Len(DateKeysOf(r.body.json.items[1], KnownOrder[k - 1]))

\* C3: when the data response is a non-empty list and every date key of
\* data[0] under a known type is well-formed, fetch returns, for the known
\* types in the order Wertstofftonne, Bioabfall, Restabfall, Altpapier that
\* are keys of data[0], one record per date key in the order of the
\* response, with the type and its icon: as many records as there are such
\* date keys, neither sorted nor deduplicated.
C3_RecordsInDeclaredOrder ==
    (DataIsList /\ \A s \in KnownDateKeys : Accepted(s))
        => /\ pc = "returned"
           /\ Len(entries) = RecordsBefore[5]
           /\ \A k \in 1..4 :
                LET keys == DateKeysOf(r.body.json.items[1], KnownOrder[k])
                IN  \A j \in 1..Len(keys) :
                      entries[RecordsBefore[k] + j] =
                          [date |-> DateDenoted(keys[j]),
                           t    |-> KnownOrder[k],
                           icon |-> IconOf(KnownOrder[k])]

C3_Witness ==
    /\ pc = "returned"
    /\ Len(entries) = 4
    /\ DictKeys(data.items[1]) = <<"Altpapier", "Wertstofftonne">>
    /\ entries[1].t = "Wertstofftonne" /\ entries[1].icon = "mdi:recycle"
    /\ entries[1].date = [year |-> 2026, month |-> 1, day |-> 19]
    /\ entries[2].date = [year |-> 2026, month |-> 1, day |-> 5]
    /\ entries[3].t = "Altpapier"
    /\ entries[3].date = entries[4].date

\* C5 as stated: a date key under a present known type that is not in the
\* strict form YYYY-MM-DD makes fetch fail with DataFormatError, and every
\* record returned carries the date its key denotes.
C5_StrictDates ==
    /\ (DataIsList /\ \E s \in KnownDateKeys : ~StrictForm(s))
          => pc = "raised" /\ DataFormatError(error)
    /\ (DataIsList /\ pc = "returned")
          => \A i \in 1..Len(entries) :
               \E s \in KnownDateKeys : entries[i].date = DateDenoted(s)

\* C5 amended: a date key under a present known type that is not a year of
\* four digits, a month of one or two digits and a day of one or two digits
\* (or a space and a digit), joined by hyphens and naming a date of the
\* calendar, makes fetch fail with DataFormatError and return no record;
\* otherwise fetch returns, and every date key has its record with the
\* calendar date it denotes (2026-1-5 is accepted and denotes 2026-01-05).
C5_AcceptedDates ==
    DataIsList =>
        IF \E s \in KnownDateKeys : ~Accepted(s)
        THEN /\ pc = "raised"
             /\ DataFormatError(error)
             /\ error.msg = "time data does not match format"
        ELSE /\ pc = "returned"
             /\ \A s \in KnownDateKeys :
                   \E i \in 1..Len(entries) : entries[i].date = DateDenoted(s)
             /\ \A i \in 1..Len(entries) :
                   \E s \in KnownDateKeys : entries[i].date = DateDenoted(s)

C5_Witness ==
    /\ DataIsList
    /\ pc = "raised"
    /\ DataFormatError(error)
    /\ DateKeysOf(data.items[1], "Restabfall") = <<D202615, DSlashes>>
    /\ Len(entries) = 1
    /\ entries[1].date = [year |-> 2026, month |-> 1, day |-> 5]

\* C10: every record returned has one of the four known types, which is a
\* key of data[0], and a date from a date key of data[0] under that type;
\* a known type that data[0] omits, a key of data[0] that is no known type
\* and the elements after data[0] yield no record and no error.
C10_RecordsFromFirstElement ==
    /\ pc = "returned"
          => \A i \in 1..Len(entries) :
                /\ entries[i].t \in KnownTypes
                /\ \E k \in 1..Len(data.items[1].items) :
                      data.items[1].items[k].key = entries[i].t
                /\ \E j \in 1..Len(DateKeysOf(data.items[1], entries[i].t)) :
                      entries[i].date =
                          DateDenoted(DateKeysOf(data.items[1],
                                                 entries[i].t)[j])
    /\ (DataIsList /\ \A s \in KnownDateKeys : Accepted(s))
          => pc = "returned"

C10_Witness ==
    /\ pc = "returned"
    /\ Len(data.items) = 2
    /\ DictKeys(data.items[1]) = <<"Sperrmuell", "Restabfall">>
    /\ DateKeysOf(data.items[1], "Sperrmuell") = <<DSlashes>>
    /\ DictKeys(data.items[2]) = <<"Bioabfall">>
    /\ DateKeysOf(data.items[2], "Bioabfall") = <<D20260105>>
    /\ Len(entries) = 1
    /\ entries[1].t = "Restabfall"

====
